---- MODULE Spec2Model ----
(***************************************************************************)
(* BankingClient (submissions/seansukamto/banking_client.py): one client   *)
(* instance, its token state, and the six public operations, each driven   *)
(* against a transport (session.request) whose outcome is chosen by the    *)
(* environment.  Amounts are counted in thousandths of a currency unit.    *)
(***************************************************************************)
EXTENDS Integers, Sequences, FiniteSets, TLC

\* Cap on the number of HTTP requests one behaviour puts on the session.
MaxRequests == 3

-----------------------------------------------------------------------------
(* Python values *)

\* Python's None.
None == "<None>"

\* bool(v) for the None-or-string values the client tests with `not v` / `or`.
Truthy(v) == v /= None /\ v /= ""

\* a or b
PyOr(a, b) == IF Truthy(a) THEN a ELSE b

\* A parsed JSON value: a dict with its items, or a non-dict value.
Dict(items) == [type |-> "dict", items |-> items]

JsonList == [type |-> "list", items |-> <<>>]

\* d.get(k) on a dict.
Get(d, k) == IF k \in DOMAIN d.items THEN d.items[k] ELSE None

-----------------------------------------------------------------------------
(* Exception classes: the client's taxonomy and the transport's *)

\* The client's exception classes and the built-in ones it raises or catches:
\* cls -> the classes an instance of cls is an instance of.
ClientClasses ==
  [ Exception           |-> {"Exception"},
    ValueError          |-> {"ValueError", "Exception"},
    AttributeError      |-> {"AttributeError", "Exception"},
    BankingAPIError     |-> {"BankingAPIError", "Exception"},
    AuthenticationError |-> {"AuthenticationError", "BankingAPIError", "Exception"},
    TransferError       |-> {"TransferError", "BankingAPIError", "Exception"} ]

\* The requests exception classes the except clauses of _request name, and
\* the subclasses the transport raises.
TransportClasses ==
  [ RequestException    |-> {"RequestException", "Exception"},
    Timeout             |-> {"Timeout", "RequestException", "Exception"},
    ConnectionError     |-> {"ConnectionError", "RequestException", "Exception"},
    ConnectTimeout      |-> {"ConnectTimeout", "ConnectionError", "Timeout",
                             "RequestException", "Exception"},
    HTTPError           |-> {"HTTPError", "RequestException", "Exception"},
    JSONDecodeError     |-> {"JSONDecodeError", "ValueError", "RequestException",
                             "Exception"},
    TooManyRedirects    |-> {"TooManyRedirects", "RequestException", "Exception"},
    RetryError          |-> {"RetryError", "RequestException", "Exception"} ]

\* isinstance(e, cls), as an except clause tests it.
IsInstance(e, cls) ==
  cls \in (IF e.cls \in DOMAIN ClientClasses
           THEN ClientClasses[e.cls] ELSE TransportClasses[e.cls])

Exc(cls, msg) == [cls |-> cls, msg |-> msg]

Raise(e) == [kind |-> "raise", exc |-> e]

Return(v) == [kind |-> "return", value |-> v]

-----------------------------------------------------------------------------
(* The transport: what session.request does with one request *)

\* Response bodies (response.text).
TxtToken == "{\"token\": \"test-token-123\"}"

TxtAccessToken == "{\"token\": \"\", \"access_token\": \"xyz\"}"

TxtSuccess == "{\"transactionId\": \"tx-123\", \"status\": \"SUCCESS\", \"message\": \"Transfer completed\", \"fromAccount\": \"ACC1000\", \"toAccount\": \"ACC1001\", \"amount\": 100.0}"

TxtFailed == "{\"status\": \"FAILED\", \"message\": \"Insufficient funds\"}"

TxtFailedNoMessage == "{\"status\": \"FAILED\", \"message\": \"\"}"

TxtEmptyObject == "{}"

TxtList == "[]"

TxtNotJson == "<html>Bad Gateway</html>"

Texts ==
  { TxtToken, TxtAccessToken, TxtSuccess, TxtFailed, TxtFailedNoMessage,
    TxtEmptyObject, TxtList, TxtNotJson }

\* The bodies tried with every status other than 200.
StatusTexts == { TxtToken, TxtSuccess, TxtNotJson }

OtherStatuses == { 100, 201, 304, 401, 404, 503 }

\* Exceptions session.request raises instead of answering.
TransportErrors ==
  { Exc("Timeout", "Read timed out."),
    Exc("ConnectTimeout", "Connect timed out."),
    Exc("ConnectionError", "Connection refused"),
    Exc("TooManyRedirects", "Exceeded 30 redirects."),
    Exc("Exception", "Connection refused") }

Response(status, text) == [kind |-> "response", status_code |-> status, text |-> text]

\* Every outcome of one session.request call.
Envs ==
  { Response(200, t) : t \in Texts }
    \cup { Response(s, t) : s \in OtherStatuses, t \in StatusTexts }
    \cup { Raise(e) : e \in TransportErrors }

\* No call to session.request was made.
NoEnv == [kind |-> "none"]

NoRequest == [method |-> "<none>"]

\* response.json(): the parsed body, or a JSONDecodeError.
Json(text) ==
  CASE text = TxtToken -> Return(Dict([token |-> "test-token-123"]))
    [] text = TxtAccessToken -> Return(Dict([token |-> "", access_token |-> "xyz"]))
    [] text = TxtSuccess ->
         Return(Dict([transactionId |-> "tx-123", status |-> "SUCCESS",
                      message |-> "Transfer completed", fromAccount |-> "ACC1000",
                      toAccount |-> "ACC1001", amount |-> 100000]))
    [] text = TxtFailed ->
         Return(Dict([status |-> "FAILED", message |-> "Insufficient funds"]))
    [] text = TxtFailedNoMessage -> Return(Dict([status |-> "FAILED", message |-> ""]))
    [] text = TxtEmptyObject -> Return(Dict(<<>>))
    [] text = TxtList -> Return(JsonList)
    [] OTHER -> Raise(Exc("JSONDecodeError", "Expecting value"))

\* Variant: every status outside 200..299 is an error.
RaisesForStatusNot2xx(status) == ~(200 <= status /\ status < 300)

\* response.raise_for_status(): an HTTPError for 4xx and 5xx, else nothing.
RaisesForStatus(status) == 400 <= status /\ status < 600

-----------------------------------------------------------------------------
(* BankingClient._request *)

BaseUrl == "http://localhost:8123"

Timeout == 30

\* urljoin(base_url, endpoint) for a base URL without a path.
UrlJoin(base, endpoint) == base \o endpoint

BearerHeader(tok) == "Bearer " \o tok

\* Variant: the Authorization header is attached whenever a token is held.
RequestHeadersWheneverTokenHeld(tok, require_auth) ==
  IF require_auth \/ tok /= None
  THEN [ContentType |-> "application/json", Accept |-> "application/json",
        Authorization |-> BearerHeader(tok)]
  ELSE [ContentType |-> "application/json", Accept |-> "application/json"]

\* request_headers as sent.
RequestHeaders(tok, require_auth) ==
  IF require_auth
  THEN [ContentType |-> "application/json", Accept |-> "application/json",
        Authorization |-> BearerHeader(tok)]
  ELSE [ContentType |-> "application/json", Accept |-> "application/json"]

\* Variant: the JSONDecodeError of response.json() is not caught.
RequestTryNoFallback(env) ==
  IF env.kind = "raise" THEN env
  ELSE IF env.status_code = 401
    THEN Raise(Exc("AuthenticationError", "Authentication failed: " \o env.text))
  ELSE IF RaisesForStatus(env.status_code)
    THEN Raise(Exc("HTTPError", ToString(env.status_code) \o " Error"))
  ELSE Json(env.text)

\* The body of the try block, given the transport's answer.
RequestTry(env) ==
  IF env.kind = "raise" THEN env
  ELSE IF env.status_code = 401
    THEN Raise(Exc("AuthenticationError", "Authentication failed: " \o env.text))
  ELSE IF RaisesForStatus(env.status_code)
    THEN Raise(Exc("HTTPError", ToString(env.status_code) \o " Error"))
  ELSE LET parsed == Json(env.text) IN
       IF parsed.kind = "raise"
       THEN Return(Dict([raw_response |-> env.text]))
       ELSE parsed

\* The except clauses of _request, in order; what matches none propagates.
RequestExcept(e, env) ==
  IF IsInstance(e, "Timeout")
    THEN Exc("BankingAPIError",
             "Request timeout after " \o ToString(Timeout) \o " seconds")
  ELSE IF IsInstance(e, "ConnectionError")
    THEN Exc("BankingAPIError",
             "Connection error: Unable to reach " \o BaseUrl
               \o ". Is the server running? " \o e.msg)
  ELSE IF IsInstance(e, "HTTPError")
    THEN Exc("BankingAPIError",
             "HTTP error " \o ToString(env.status_code) \o ": " \o env.text)
  ELSE IF IsInstance(e, "RequestException")
    THEN Exc("BankingAPIError", "Request failed: " \o e.msg)
  ELSE e

\* Variant: the token check is skipped.
TokenMissingUnchecked(tok, require_auth) == FALSE

\* require_auth with no token held.
TokenMissing(tok, require_auth) == require_auth /\ ~Truthy(tok)

\* _request(method, endpoint, data, require_auth) on a client holding tok:
\* the request put on the session (or NoRequest) and the outcome.
Request(tok, method, endpoint, data, require_auth, env) ==
  IF TokenMissing(tok, require_auth)
  THEN [sent |-> NoRequest,
        out  |-> Raise(Exc("AuthenticationError",
                   "Authentication required but no token available. Call authenticate() first."))]
  ELSE LET req == [method |-> method, url |-> UrlJoin(BaseUrl, endpoint),
                   json |-> data, headers |-> RequestHeaders(tok, require_auth),
                   timeout |-> Timeout]
           t == RequestTry(env)
       IN [sent |-> req,
           out  |-> IF t.kind = "raise" THEN Raise(RequestExcept(t.exc, env)) ELSE t]

-----------------------------------------------------------------------------
(* TransferRequest and TransferResponse *)

\* Variant: the amount is not validated.
PostInitNoAmountCheck(from_account, to_account, amount) ==
  IF ~Truthy(from_account)
    THEN Raise(Exc("ValueError", "from_account must be a non-empty string"))
  ELSE IF ~Truthy(to_account)
    THEN Raise(Exc("ValueError", "to_account must be a non-empty string"))
  ELSE IF from_account = to_account
    THEN Raise(Exc("ValueError", "from_account and to_account cannot be the same"))
  ELSE Return([from_account |-> from_account, to_account |-> to_account,
               amount |-> amount])

\* TransferRequest.__post_init__: raises a ValueError or constructs the request.
PostInit(from_account, to_account, amount) ==
  IF ~Truthy(from_account)
    THEN Raise(Exc("ValueError", "from_account must be a non-empty string"))
  ELSE IF ~Truthy(to_account)
    THEN Raise(Exc("ValueError", "to_account must be a non-empty string"))
  ELSE IF amount <= 0
    THEN Raise(Exc("ValueError", "amount must be greater than 0"))
  ELSE IF from_account = to_account
    THEN Raise(Exc("ValueError", "from_account and to_account cannot be the same"))
  ELSE Return([from_account |-> from_account, to_account |-> to_account,
               amount |-> amount])

\* round(amount, 2) on thousandths: the nearest hundredth, an exact tie going
\* to the even hundredth.  (A float that only prints as a tie, such as 0.005,
\* rounds by its binary value; Amounts holds no amount ending in 5.)
Round2(amount) ==
  LET lo == (amount \div 10) * 10
      r  == amount % 10
  IN IF r < 5 THEN lo
     ELSE IF r > 5 THEN lo + 10
     ELSE IF (lo \div 10) % 2 = 0 THEN lo ELSE lo + 10

\* TransferRequest.to_dict
ToDict(transfer_request) ==
  [fromAccount |-> transfer_request.from_account,
   toAccount   |-> transfer_request.to_account,
   amount      |-> Round2(transfer_request.amount)]

\* TransferResponse.from_dict
FromDict(data) ==
  [transaction_id |-> Get(data, "transactionId"),
   status         |-> Get(data, "status"),
   message        |-> Get(data, "message"),
   from_account   |-> Get(data, "fromAccount"),
   to_account     |-> Get(data, "toAccount"),
   amount         |-> Get(data, "amount")]

\* Calling .get on a parsed body that is no dict.
NoGet == Exc("AttributeError", "'list' object has no attribute 'get'")

-----------------------------------------------------------------------------
(* The public operations.  Each yields the request sent (or NoRequest), the  *)
(* outcome, and the token and claim the client holds afterwards.             *)

Result(r, out, tok, claim) == [sent |-> r.sent, out |-> out, token |-> tok, claim |-> claim]

\* authenticate: the except clauses around its body.
AuthenticateExcept(e) ==
  IF IsInstance(e, "BankingAPIError") THEN e
  ELSE Exc("AuthenticationError", "Authentication failed: " \o e.msg)

\* Variant: a token already held is kept.
SetTokenKeepFirst(tok, new) == IF Truthy(tok) THEN tok ELSE new

\* self._token = token
SetToken(tok, new) == new

authenticate(tok, tclaim, username, password, claim, env) ==
  LET r == Request(tok, "POST", "/authToken?claim=" \o claim,
                   [username |-> username, password |-> password], FALSE, env)
  IN IF r.out.kind = "raise"
       THEN Result(r, Raise(AuthenticateExcept(r.out.exc)), tok, tclaim)
     ELSE IF r.out.value.type /= "dict"
       THEN Result(r, Raise(AuthenticateExcept(NoGet)), tok, tclaim)
     ELSE LET new == PyOr(Get(r.out.value, "token"), Get(r.out.value, "access_token"))
          IN IF ~Truthy(new)
               THEN Result(r, Raise(AuthenticateExcept(
                      Exc("AuthenticationError",
                          "No token received in response: " \o env.text))), tok, tclaim)
             ELSE Result(r, Return(new), SetToken(tok, new), claim)

\* transfer: the except clauses around its body.
TransferExcept(e) ==
  IF IsInstance(e, "ValueError") THEN e
  ELSE IF IsInstance(e, "BankingAPIError") THEN e
  ELSE Exc("TransferError", "Transfer operation failed: " \o e.msg)

\* Variant: the server's message is dropped.
TransferOutcomeGenericMessage(transfer_response) ==
  IF transfer_response.status = "SUCCESS"
  THEN Return(transfer_response)
  ELSE Raise(Exc("TransferError", "Transfer failed"))

\* transfer: the check of the parsed response's status.
TransferOutcome(transfer_response) ==
  IF transfer_response.status = "SUCCESS"
  THEN Return(transfer_response)
  ELSE Raise(Exc("TransferError", PyOr(transfer_response.message, "Transfer failed")))

transfer(tok, tclaim, from_account, to_account, amount, use_auth, env) ==
  LET made == PostInit(from_account, to_account, amount) IN
  IF made.kind = "raise"
  THEN Result([sent |-> NoRequest], Raise(TransferExcept(made.exc)), tok, tclaim)
  ELSE
    LET r == Request(tok, "POST", "/transfer", ToDict(made.value), use_auth, env)
    IN IF r.out.kind = "raise"
         THEN Result(r, Raise(TransferExcept(r.out.exc)), tok, tclaim)
       ELSE IF r.out.value.type /= "dict"
         THEN Result(r, Raise(TransferExcept(NoGet)), tok, tclaim)
       ELSE LET transfer_response == FromDict(r.out.value) IN
            LET o == TransferOutcome(transfer_response) IN
            Result(r, IF o.kind = "raise" THEN Raise(TransferExcept(o.exc)) ELSE o,
                   tok, tclaim)

\* The read operations re-raise a BankingAPIError and catch nothing else.
ReadExcept(e) == e

\* Variant: an AuthenticationError makes the client drop its token.
ReadResultDroppingToken(r, tok, tclaim) ==
  IF r.out.kind = "raise" /\ IsInstance(r.out.exc, "AuthenticationError")
  THEN Result(r, Raise(ReadExcept(r.out.exc)), None, None)
  ELSE Result(r, IF r.out.kind = "raise" THEN Raise(ReadExcept(r.out.exc)) ELSE r.out,
              tok, tclaim)

ReadResult(r, tok, tclaim) ==
  Result(r, IF r.out.kind = "raise" THEN Raise(ReadExcept(r.out.exc)) ELSE r.out,
         tok, tclaim)

validate_account(tok, tclaim, account_id, env) ==
  IF ~Truthy(account_id)
  THEN Result([sent |-> NoRequest],
              Raise(Exc("ValueError", "account_id cannot be empty")), tok, tclaim)
  ELSE ReadResult(Request(tok, "GET", "/accounts/validate/" \o account_id, None, FALSE, env),
                  tok, tclaim)

get_account_balance(tok, tclaim, account_id, env) ==
  IF ~Truthy(account_id)
  THEN Result([sent |-> NoRequest],
              Raise(Exc("ValueError", "account_id cannot be empty")), tok, tclaim)
  ELSE ReadResult(Request(tok, "GET", "/accounts/balance/" \o account_id, None, FALSE, env),
                  tok, tclaim)

list_accounts(tok, tclaim, env) ==
  ReadResult(Request(tok, "GET", "/accounts", None, FALSE, env), tok, tclaim)

get_transaction_history(tok, tclaim, use_auth, env) ==
  ReadResult(Request(tok, "GET", "/transactions/history", None, use_auth, env),
             tok, tclaim)

-----------------------------------------------------------------------------
(* The client as a state machine *)

VARIABLES
  token,        \* self._token
  token_claim,  \* self._token_claim
  nreq,         \* calls made to session.request so far
  granted,      \* the value the latest successful authenticate returned
  last,         \* the latest operation: call, request sent, transport answer, outcome
  flight,       \* the request the transport is working on, and its attempts
  cli           \* main(): where it stands, its arguments, its calls, its exit code

vars == <<token, token_claim, nreq, granted, last, flight, cli>>

\* Caller inputs.
Accounts == {"", "ACC1000", "ACC1001"}

Amounts == {-100000, 0, 4, 100500}

Claims == {"transfer", "enquiry"}

\* No request is with the transport and none has been.
NoFlight == [pending |-> FALSE, attempts |-> 0, sends |-> 0, total |-> 0,
             tried |-> [kind |-> "none"]]

Init ==
  /\ token = None
  /\ token_claim = None
  /\ nreq = 0
  /\ granted = None
  /\ last = [call |-> [op |-> "__init__"], sent |-> NoRequest, env |-> NoEnv,
             out |-> [kind |-> "none"]]
  /\ flight = NoFlight
  /\ cli = [pc |-> "idle"]

\* One call of a public operation on a client holding tok and tclaim.
RunWith(tok, tclaim, call, env) ==
  CASE call.op = "authenticate" ->
         authenticate(tok, tclaim, call.username, call.password, call.claim, env)
    [] call.op = "transfer" ->
         transfer(tok, tclaim, call.from_account, call.to_account,
                  call.amount, call.use_auth, env)
    [] call.op = "validate_account" ->
         validate_account(tok, tclaim, call.account_id, env)
    [] call.op = "get_account_balance" ->
         get_account_balance(tok, tclaim, call.account_id, env)
    [] call.op = "list_accounts" -> list_accounts(tok, tclaim, env)
    [] call.op = "get_transaction_history" ->
         get_transaction_history(tok, tclaim, call.use_auth, env)

\* One call of a public operation on this client.
Run(call, env) == RunWith(token, token_claim, call, env)

\* Whether the call gets as far as session.request (the answer plays no part).
Reaches(call) == Run(call, Response(200, TxtEmptyObject)).sent /= NoRequest

\* The call ends, session.request having done env.
End(call, env) ==
  \E r \in {Run(call, env)} :
    /\ token' = r.token
    /\ token_claim' = r.claim
    /\ nreq' = IF r.sent = NoRequest THEN nreq ELSE nreq + 1
    /\ granted' = IF call.op = "authenticate" /\ r.out.kind = "return"
                  THEN r.out.value ELSE granted
    /\ last' = [call |-> call, sent |-> r.sent, env |-> env, out |-> r.out]

\* The call runs against one answer of the transport and ends.
Do(call) ==
  \E env \in IF Reaches(call) THEN Envs ELSE {NoEnv} : End(call, env)

Authenticate ==
  /\ nreq < MaxRequests
  /\ \E claim \in Claims :
       Do([op |-> "authenticate", username |-> "bob", password |-> "secret",
           claim |-> claim])
  /\ UNCHANGED <<flight, cli>>

Transfer ==
  /\ nreq < MaxRequests
  /\ \E from_account \in Accounts, to_account \in Accounts, amount \in Amounts,
        use_auth \in BOOLEAN :
       Do([op |-> "transfer", from_account |-> from_account, to_account |-> to_account,
           amount |-> amount, use_auth |-> use_auth])
  /\ UNCHANGED <<flight, cli>>

ValidateAccount ==
  /\ nreq < MaxRequests
  /\ \E account_id \in Accounts :
       Do([op |-> "validate_account", account_id |-> account_id])
  /\ UNCHANGED <<flight, cli>>

GetAccountBalance ==
  /\ nreq < MaxRequests
  /\ \E account_id \in Accounts :
       Do([op |-> "get_account_balance", account_id |-> account_id])
  /\ UNCHANGED <<flight, cli>>

ListAccounts ==
  /\ nreq < MaxRequests
  /\ Do([op |-> "list_accounts"])
  /\ UNCHANGED <<flight, cli>>

GetTransactionHistory ==
  /\ nreq < MaxRequests
  /\ \E use_auth \in BOOLEAN :
       Do([op |-> "get_transaction_history", use_auth |-> use_auth])
  /\ UNCHANGED <<flight, cli>>

Next ==
  \/ Authenticate
  \/ Transfer
  \/ ValidateAccount
  \/ GetAccountBalance
  \/ ListAccounts
  \/ GetTransactionHistory

Spec == Init /\ [][Next]_vars

-----------------------------------------------------------------------------
(* The mounted transport: HTTPAdapter(max_retries=Retry(...)), one attempt at *)
(* a time                                                                    *)

\* max_retries
MaxRetries == 3

\* Redirects the session follows for one request before it gives up.
MaxRedirects == 1

\* status_forcelist
StatusForcelist == {429, 500, 502, 503, 504}

\* allowed_methods
AllowedMethods == {"GET", "POST"}

\* Statuses on which Retry honours a Retry-After header (its default).
RetryAfterStatuses == {413, 429, 503}

\* Statuses the session follows when the answer names a Location.
RedirectStatuses == {301, 302, 303, 307, 308}

AttemptResponse(status, text, retry_after, location) ==
  [kind |-> "response", status_code |-> status, text |-> text,
   retry_after |-> retry_after, location |-> location]

AttemptError(cls) == [kind |-> "error", cls |-> cls]

\* How one HTTP attempt can end.
Attempts ==
  { AttemptResponse(200, TxtToken, FALSE, FALSE),
    AttemptResponse(200, TxtSuccess, FALSE, FALSE),
    AttemptResponse(302, TxtNotJson, FALSE, TRUE),
    AttemptResponse(304, TxtNotJson, FALSE, FALSE),
    AttemptResponse(401, TxtNotJson, FALSE, FALSE),
    AttemptResponse(404, TxtNotJson, FALSE, FALSE),
    AttemptResponse(413, TxtNotJson, FALSE, FALSE),
    AttemptResponse(413, TxtNotJson, TRUE, FALSE),
    AttemptResponse(429, TxtNotJson, TRUE, FALSE),
    AttemptResponse(503, TxtNotJson, FALSE, FALSE),
    AttemptError("NewConnectionError"),
    AttemptError("ConnectTimeoutError"),
    AttemptError("ReadTimeoutError") }

\* A transport that asks for another attempt on every error status.
IsRetryOnAnyErrorStatus(method, a) ==
  /\ method \in AllowedMethods
  /\ a.status_code >= 400

\* Retry.is_retry: the answer's status asks for another attempt.
IsRetry(method, a) ==
  /\ method \in AllowedMethods
  /\ \/ a.status_code \in StatusForcelist
     \/ MaxRetries > 0 /\ a.retry_after /\ a.status_code \in RetryAfterStatuses

\* Retry.increment on a failed attempt: connection errors always count
\* against total, read errors only for an allowed method.
IsRetryableError(method, a) ==
  \/ a.cls \in {"NewConnectionError", "ConnectTimeoutError"}
  \/ a.cls = "ReadTimeoutError" /\ method \in AllowedMethods

\* The attempt is answered and retried, or failed and retried, while total lasts.
WantsRetry(method, a) ==
  IF a.kind = "error" THEN IsRetryableError(method, a) ELSE IsRetry(method, a)

\* Retry.is_exhausted after one more increment.
IsExhausted(total) == total - 1 < 0

\* What session.request raises once the retries are used up on attempt a.
Exhausted(a) ==
  IF a.kind = "response"
    THEN Exc("RetryError", "Max retries exceeded (too many "
                             \o ToString(a.status_code) \o " error responses)")
  ELSE IF a.cls = "ConnectTimeoutError"
    THEN Exc("ConnectTimeout", "Max retries exceeded (connect timeout)")
  ELSE Exc("ConnectionError", "Max retries exceeded (" \o a.cls \o ")")

\* What session.request raises for an error that is not retried.
Unretried(a) ==
  IF a.cls = "ReadTimeoutError" THEN Exc("Timeout", "Read timed out.")
  ELSE Exc("ConnectionError", a.cls)

IsRedirect(a) == a.location /\ a.status_code \in RedirectStatuses

\* What attempt a leads to for the request in flight: "retry", "redirect",
\* or "done" with the outcome of session.request.
AfterAttempt(f, method, a) ==
  IF WantsRetry(method, a)
    THEN IF IsExhausted(f.total)
         THEN [to |-> "done", env |-> Raise(Exhausted(a))]
         ELSE [to |-> "retry"]
  ELSE IF a.kind = "error"
    THEN [to |-> "done", env |-> Raise(Unretried(a))]
  ELSE IF IsRedirect(a)
    THEN IF f.sends - 1 >= MaxRedirects
         THEN [to |-> "done",
               env |-> Raise(Exc("TooManyRedirects", "Exceeded "
                                   \o ToString(MaxRedirects) \o " redirects."))]
         ELSE [to |-> "redirect"]
  ELSE [to |-> "done", env |-> Response(a.status_code, a.text)]

\* The calls tried against the mounted transport.
TransportCalls ==
  { [op |-> "authenticate", username |-> "bob", password |-> "secret",
     claim |-> "transfer"],
    [op |-> "validate_account", account_id |-> "ACC1000"],
    [op |-> "validate_account", account_id |-> ""],
    [op |-> "list_accounts"],
    [op |-> "get_transaction_history", use_auth |-> TRUE] }
    \cup { [op |-> "transfer", from_account |-> "ACC1000", to_account |-> "ACC1001",
            amount |-> amount, use_auth |-> use_auth] :
              amount \in {0, 100500}, use_auth \in BOOLEAN }

\* A public operation is called: it fails before any I/O, or hands its
\* request to the transport.
Begin ==
  /\ ~flight.pending
  /\ nreq < MaxRequests
  /\ \E call \in TransportCalls :
       IF Reaches(call)
       THEN /\ flight' = [pending |-> TRUE, attempts |-> 0, sends |-> 1,
                          total |-> MaxRetries, tried |-> [kind |-> "none"]]
            /\ last' = [call |-> call,
                        sent |-> Run(call, Response(200, TxtEmptyObject)).sent,
                        env |-> NoEnv, out |-> [kind |-> "pending"]]
            /\ UNCHANGED <<token, token_claim, nreq, granted>>
       ELSE /\ End(call, NoEnv)
            /\ flight' = NoFlight
  /\ UNCHANGED cli

\* One HTTP attempt of the request in flight ends; the transport retries,
\* the session follows a redirect, or session.request is over and the
\* operation ends with it.
Attempt ==
  /\ flight.pending
  /\ \E a \in Attempts :
       \E n \in {AfterAttempt(flight, last.sent.method, a)} :
         IF n.to = "done"
         THEN /\ End(last.call, n.env)
              /\ flight' = [flight EXCEPT !.pending = FALSE,
                                          !.attempts = @ + 1, !.tried = a]
         ELSE /\ flight' = [flight EXCEPT
                              !.attempts = @ + 1,
                              !.tried = a,
                              !.sends = IF n.to = "redirect" THEN @ + 1 ELSE @,
                              !.total = IF n.to = "redirect" THEN MaxRetries ELSE @ - 1]
              /\ UNCHANGED <<token, token_claim, nreq, granted, last>>
  /\ UNCHANGED cli

NextTransport ==
  \/ Begin
  \/ Attempt

\* An attempt in flight ends: the server answers or the timeout elapses.
SpecTransport == Init /\ [][NextTransport]_vars /\ WF_vars(Attempt)

-----------------------------------------------------------------------------
(* main(): the command-line harness, one run on a client of its own *)

\* Parsed command lines: --validate is None when the flag is not given.
Args ==
  [ use_auth      : BOOLEAN,
    validate      : {None, "", "ACC1000"},
    list_accounts : BOOLEAN,
    from_account  : {"ACC1000"},
    to_account    : {"ACC1000", "ACC1001"},
    amount        : {0, 100000} ]

\* The operation main selects: if args.validate / elif args.list_accounts / else.
MainOperation(args) ==
  IF Truthy(args.validate)
    THEN [op |-> "validate_account", account_id |-> args.validate]
  ELSE IF args.list_accounts
    THEN [op |-> "list_accounts"]
  ELSE [op |-> "transfer", from_account |-> args.from_account,
        to_account |-> args.to_account, amount |-> args.amount,
        use_auth |-> args.use_auth]

\* The except clauses of main: the exit code for an exception.
MainExcept(e) ==
  IF IsInstance(e, "BankingAPIError") THEN 1
  ELSE IF IsInstance(e, "Exception") THEN 1
  ELSE 1

\* main after one client call: it goes on to next_pc, or returns.
MainAfter(out, call, next_pc) ==
  LET calls == Append(cli.calls, [op |-> call.op, ok |-> out.kind = "return"]) IN
  IF out.kind = "raise"
    THEN [pc |-> "done", args |-> cli.args, calls |-> calls,
          exit_code |-> MainExcept(out.exc)]
  ELSE IF next_pc = "done"
    THEN [pc |-> "done", args |-> cli.args, calls |-> calls, exit_code |-> 0]
  ELSE [pc |-> next_pc, args |-> cli.args, calls |-> calls]

\* parse_args and BankingClient(base_url=...).
MainStart ==
  /\ cli.pc = "idle"
  /\ \E args \in Args :
       cli' = [pc |-> IF args.use_auth THEN "authenticate" ELSE "operate",
               args |-> args, calls |-> <<>>]
  /\ UNCHANGED <<token, token_claim, nreq, granted, last, flight>>

\* if args.use_auth: client.authenticate(claim="transfer")
MainAuthenticate ==
  /\ cli.pc = "authenticate"
  /\ Do([op |-> "authenticate", username |-> "bob", password |-> "secret",
         claim |-> "transfer"])
  /\ cli' = MainAfter(last'.out, last'.call, "operate")
  /\ UNCHANGED flight

\* The selected operation, then return 0, or 1 from an except clause.
MainOperate ==
  /\ cli.pc = "operate"
  /\ Do(MainOperation(cli.args))
  /\ cli' = MainAfter(last'.out, last'.call, "done")
  /\ UNCHANGED flight

NextMain ==
  \/ MainStart
  \/ MainAuthenticate
  \/ MainOperate

SpecMain == Init /\ [][NextMain]_vars

-----------------------------------------------------------------------------
(* Vocabulary of the properties, read off the latest operation *)

\* The call put a request on the session.
Sent == last.sent /= NoRequest

\* The transport answered the call with an HTTP response.
Answered == Sent /\ last.env.kind = "response"

Is2xx(status) == 200 <= status /\ status < 300

Raised == last.out.kind = "raise"

Returned == last.out.kind = "return"

\* The call raised exactly this class.
RaisedCls(cls) == Raised /\ last.out.exc.cls = cls

\* transfer arguments that TransferRequest accepts.
ValidTransfer(call) ==
  /\ call.from_account /= ""
  /\ call.to_account /= ""
  /\ call.amount > 0
  /\ call.from_account /= call.to_account

\* The call is one that requires authentication.
AuthRequired(call) ==
  \/ call.op = "transfer" /\ ValidTransfer(call) /\ call.use_auth
  \/ call.op = "get_transaction_history" /\ call.use_auth

\* The call fails validation: bad transfer arguments or an empty account_id.
InvalidCall(call) ==
  \/ call.op = "transfer" /\ ~ValidTransfer(call)
  \/ call.op \in {"validate_account", "get_account_balance"} /\ call.account_id = ""

ReadOps ==
  {"validate_account", "get_account_balance", "list_accounts", "get_transaction_history"}

-----------------------------------------------------------------------------
(* C1 *)

\* C1: while no authenticate has succeeded on the client, a call that requires
\* authentication (transfer with valid inputs and use_auth, or
\* get_transaction_history with use_auth) raises AuthenticationError and puts
\* no request on the session.
C1_NoTokenNoRequest ==
  [][ (granted = None /\ AuthRequired(last'.call))
        => /\ last'.out.kind = "raise"
           /\ last'.out.exc.cls = "AuthenticationError"
           /\ last'.sent = NoRequest
           /\ nreq' = nreq ]_vars

\* An authenticated transfer was refused on a client that never authenticated,
\* after other requests had already gone out.
C1_Witness ==
  /\ granted = None
  /\ last.call.op = "transfer"
  /\ AuthRequired(last.call)
  /\ RaisedCls("AuthenticationError")
  /\ ~Sent
  /\ nreq > 0

-----------------------------------------------------------------------------
(* C2 *)

\* C2: an authenticate answered 2xx with a body holding token T returns T and
\* stores it, and every request of a call that requires authentication carries
\* Authorization: Bearer T for the T the latest successful authenticate returned.
C2_BearerOfLatestToken ==
  /\ \A b \in { <<TxtToken, "test-token-123">>, <<TxtAccessToken, "xyz">> } :
       ( /\ last.call.op = "authenticate"
         /\ Answered
         /\ Is2xx(last.env.status_code)
         /\ last.env.text = b[1] )
         => /\ last.out = Return(b[2])
            /\ token = b[2]
            /\ token_claim = last.call.claim
            /\ granted = b[2]
  /\ (AuthRequired(last.call) /\ Sent)
       => /\ "Authorization" \in DOMAIN last.sent.headers
          /\ last.sent.headers.Authorization = "Bearer " \o granted

\* After an authenticate that was granted "xyz" under claim enquiry, an
\* authenticated call went out carrying that token.
C2_Witness ==
  /\ last.call.op = "get_transaction_history"
  /\ last.call.use_auth
  /\ Sent
  /\ granted = "xyz"
  /\ last.sent.headers.Authorization = "Bearer xyz"
  /\ token_claim = "enquiry"

-----------------------------------------------------------------------------
(* C3 *)

\* C3: transfer with an empty account, an amount <= 0 or identical accounts,
\* and validate_account / get_account_balance with an empty account_id, raise
\* ValueError and put no request on the session, whatever token the client
\* holds and whatever use_auth is.
C3_InvalidInputNoRequest ==
  [][ InvalidCall(last'.call)
        => /\ last'.out.kind = "raise"
           /\ last'.out.exc.cls = "ValueError"
           /\ last'.sent = NoRequest
           /\ nreq' = nreq ]_vars

\* A transfer of a non-positive amount with use_auth on a client without a
\* token fails validation, not authentication.
C3_Witness ==
  /\ last.call.op = "transfer"
  /\ last.call.amount <= 0
  /\ last.call.from_account = "ACC1000"
  /\ last.call.to_account = "ACC1001"
  /\ last.call.use_auth
  /\ token = None
  /\ RaisedCls("ValueError")
  /\ ~Sent

-----------------------------------------------------------------------------
(* C4 *)

\* The field k of the answered body when it parses to an object, else None.
BodyField(k) ==
  LET parsed == Json(last.env.text) IN
  IF parsed.kind = "return" /\ parsed.value.type = "dict"
  THEN Get(parsed.value, k) ELSE None

\* The answered body is valid JSON but not an object.
BodyNotObject ==
  LET parsed == Json(last.env.text) IN
  parsed.kind = "return" /\ parsed.value.type /= "dict"

\* A transfer with valid inputs was answered 2xx.
TransferAnswered2xx ==
  /\ last.call.op = "transfer"
  /\ Answered
  /\ Is2xx(last.env.status_code)

\* C4 as claimed: on a 2xx answer transfer returns a TransferResponse exactly
\* when the status field is "SUCCESS", and otherwise raises TransferError with
\* the body's non-empty message field, else "Transfer failed".
C4_AsClaimed ==
  TransferAnswered2xx =>
    /\ Returned <=> BodyField("status") = "SUCCESS"
    /\ Returned => last.out.value.transaction_id = BodyField("transactionId")
    /\ BodyField("status") /= "SUCCESS"
         => /\ RaisedCls("TransferError")
            /\ last.out.exc.msg = PyOr(BodyField("message"), "Transfer failed")

\* C4 amended: as claimed, except that a 2xx body which is valid JSON but not
\* an object raises TransferError with the message "Transfer operation failed:"
\* followed by the internal error, not "Transfer failed".
C4_TransferOutcome ==
  TransferAnswered2xx =>
    /\ Returned <=> BodyField("status") = "SUCCESS"
    /\ Returned => /\ last.out.value.transaction_id = BodyField("transactionId")
                   /\ last.out.value.status = "SUCCESS"
    /\ BodyField("status") /= "SUCCESS"
         => /\ RaisedCls("TransferError")
            /\ last.out.exc.msg =
                 IF BodyNotObject
                 THEN "Transfer operation failed: " \o NoGet.msg
                 ELSE PyOr(BodyField("message"), "Transfer failed")

\* A transfer answered 2xx with status FAILED was refused with the server's
\* message.
C4_Witness ==
  /\ TransferAnswered2xx
  /\ last.env.text = TxtFailed
  /\ RaisedCls("TransferError")
  /\ last.out.exc.msg = "Insufficient funds"

-----------------------------------------------------------------------------
(* C5 *)

\* C5 as claimed: when session.request fails with connection refused, as a
\* requests ConnectionError or as the plain exception the test injects, the
\* operation raises BankingAPIError or a subclass of it.
C5_AsClaimed ==
  ( /\ Sent
    /\ last.env.kind = "raise"
    /\ last.env.exc.msg = "Connection refused" )
    => /\ Raised
       /\ IsInstance(last.out.exc, "BankingAPIError")

-----------------------------------------------------------------------------
(* C6 *)

\* C6 as claimed: every failure of authenticate is an AuthenticationError.
C6_AsClaimed ==
  (last.call.op = "authenticate" /\ Raised) => last.out.exc.cls = "AuthenticationError"

-----------------------------------------------------------------------------
(* C7 *)

\* What _request returns for a body once the status lets it through.
ParsedBody(text) ==
  LET parsed == Json(text) IN
  IF parsed.kind = "return" THEN parsed ELSE Return(Dict([raw_response |-> text]))

-----------------------------------------------------------------------------
(* C8 *)

-----------------------------------------------------------------------------
(* C9 *)

\* C9 as claimed: whatever escapes a public operation is a ValueError, an
\* AuthenticationError, a TransferError or a BankingAPIError.
C9_AsClaimed ==
  Raised =>
    last.out.exc.cls \in {"ValueError", "AuthenticationError", "TransferError",
                          "BankingAPIError"}

-----------------------------------------------------------------------------
(* C10 *)

\* C10: a read operation answered 2xx with a body that is not valid JSON
\* raises nothing and returns the fallback object {raw_response: <body text>}.
C10_NonJsonFallback ==
  ( /\ last.call.op \in ReadOps
    /\ Answered
    /\ Is2xx(last.env.status_code)
    /\ last.env.text = TxtNotJson )
    => last.out = Return(Dict([raw_response |-> TxtNotJson]))

\* get_transaction_history returned the fallback object for an HTML body.
C10_Witness ==
  /\ last.call.op = "get_transaction_history"
  /\ Answered
  /\ last.env.status_code = 200
  /\ last.env.text = TxtNotJson
  /\ Returned
  /\ last.out.value.items.raw_response = TxtNotJson

-----------------------------------------------------------------------------
(* C11 *)

\* C11 as claimed: main returns 0 exactly when every client call it made
\* succeeded; with --use-auth it authenticates first and after a failed
\* authenticate makes no further call; otherwise it makes exactly one more
\* call: validate if --validate was given, else list if --list-accounts, else
\* transfer.
C11_AsClaimed ==
  cli.pc = "done" =>
    LET calls == cli.calls
        args  == cli.args
        first == IF args.use_auth THEN 2 ELSE 1
    IN /\ cli.exit_code = 0 <=> \A i \in 1..Len(calls) : calls[i].ok
       /\ cli.exit_code \in {0, 1}
       /\ args.use_auth => calls[1].op = "authenticate"
       /\ (args.use_auth /\ ~calls[1].ok) => Len(calls) = 1
       /\ ~(args.use_auth /\ ~calls[1].ok)
            => /\ Len(calls) = first
               /\ calls[first].op =
                    IF args.validate /= None THEN "validate_account"
                    ELSE IF args.list_accounts THEN "list_accounts"
                    ELSE "transfer"

-----------------------------------------------------------------------------
(* The retrying transport *)

\* The step is a retry: the transport sends the same request again.
Retried ==
  /\ flight.pending /\ flight'.pending
  /\ flight'.attempts = flight.attempts + 1
  /\ flight'.sends = flight.sends

\* The step is a call that failed before any I/O.
FailedBeforeIO == ~flight.pending /\ last' /= last /\ last'.sent = NoRequest

\* C12, as claimed: one operation call never issues more than 1 + max_retries
\* HTTP attempts, and the transport retries an attempt only when it ends in
\* status 429, 500, 502, 503 or 504, for GET and POST only.
C12_AsClaimed ==
  [][ /\ flight'.attempts <= 1 + MaxRetries
      /\ Retried => /\ flight'.tried.kind = "response"
                    /\ flight'.tried.status_code \in {429, 500, 502, 503, 504}
                    /\ last.sent.method \in {"GET", "POST"} ]_vars

\* C12, amended: each request the session sends is attempted at most
\* 1 + max_retries times, so one operation call issues at most
\* (1 + redirects followed) * (1 + max_retries) attempts and always ends with
\* a result or an error; only GET and POST are retried, and only an attempt
\* that ends in status 429, 500, 502, 503 or 504, in status 413, 429 or 503
\* carrying Retry-After, or in a connection or read error; a 401 or any other
\* 4xx answer without Retry-After is never retried, and a validation error or
\* a missing token costs no attempt at all.
C12_RetryPolicy ==
  /\ [][ /\ flight'.sends <= 1 + MaxRedirects
         /\ flight'.attempts <= flight'.sends * (1 + MaxRetries)
         /\ flight'.pending => flight'.attempts < flight'.sends * (1 + MaxRetries)
         /\ Retried =>
              /\ last.sent.method \in {"GET", "POST"}
              /\ \/ flight'.tried.kind = "error"
                 \/ flight'.tried.status_code \in {429, 500, 502, 503, 504}
                 \/ /\ flight'.tried.retry_after
                    /\ flight'.tried.status_code \in {413, 429, 503}
              /\ flight'.tried.kind = "response"
                   => ~(/\ flight'.tried.status_code \in 400..499
                        /\ flight'.tried.status_code /= 429
                        /\ ~flight'.tried.retry_after)
         /\ FailedBeforeIO => ~flight'.pending /\ flight'.attempts = 0 ]_vars
  /\ (flight.pending ~> ~flight.pending)

\* A call ended in an error after the transport used up its retries.
C12_Witness ==
  /\ ~flight.pending
  /\ flight.sends = 1
  /\ flight.attempts = 1 + MaxRetries
  /\ flight.tried.kind = "response"
  /\ flight.tried.status_code = 503
  /\ RaisedCls("BankingAPIError")

-----------------------------------------------------------------------------
(* The token stays out of unauthenticated requests *)

\* What self._token can be: unset, or a truthy string some answer carried.
HeldTokens == {None, "test-token-123", "xyz"}

\* C13: a request carries the Authorization header if and only if the
\* operation was called with auth required; the request of any other call is
\* the same whether or not the client holds a token and whatever its value.
C13_NoTokenInUnauthenticatedRequest ==
  Sent =>
    /\ "Authorization" \in DOMAIN last.sent.headers <=> AuthRequired(last.call)
    /\ ~AuthRequired(last.call) =>
         \A tok \in HeldTokens, tclaim \in {None} \cup Claims :
           RunWith(tok, tclaim, last.call, last.env).sent = last.sent

\* A client holding a token sent a transfer it was not asked to authenticate.
C13_Witness ==
  /\ Sent
  /\ last.call.op = "transfer"
  /\ ~last.call.use_auth
  /\ token /= None
  /\ "Authorization" \notin DOMAIN last.sent.headers

-----------------------------------------------------------------------------
(* What transfer puts on the wire *)

\* C14, as claimed: every POST /transfer request carries non-empty, distinct
\* fromAccount and toAccount and an amount strictly greater than 0, the wire
\* amount being the caller's amount rounded to 2 decimal places.
C14_AsClaimed ==
  (Sent /\ last.call.op = "transfer") =>
    /\ last.sent.method = "POST"
    /\ last.sent.json.fromAccount /= ""
    /\ last.sent.json.toAccount /= ""
    /\ last.sent.json.fromAccount /= last.sent.json.toAccount
    /\ last.sent.json.amount = Round2(last.call.amount)
    /\ last.sent.json.amount > 0

=============================================================================
